---- MODULE Spec2Model ----
(***************************************************************************)
(* Angle / AngleRange of lab1.py: circular (modulo 2*pi) intervals with    *)
(* inclusive / exclusive endpoints, their containment test, union (+) and  *)
(* difference (-), and the Keyboard of lab6 with its undo / redo history.   *)
(*                                                                         *)
(* Radian values are modelled on an integer grid: one full turn (2*pi) is  *)
(* TwoPi grid units, so x % (2*pi) is x % TwoPi and every comparison the   *)
(* code makes between endpoints is an exact integer comparison.            *)
(***************************************************************************)
EXTENDS Integers, Sequences, FiniteSets, TLC

\* grid units in one full turn (the value 2*pi)
TwoPi == 6

\* how far raw (unreduced) endpoint values reach below 0 and above 2*pi
RawExt == 1

Raw == (0 - RawExt) .. (TwoPi + RawExt)

BOOL == {TRUE, FALSE}

\* AngleRange.__init__: the four fields of a range
AngleRange(first, second, first_incl, second_incl) ==
    [first |-> first, second |-> second,
     first_incl |-> first_incl, second_incl |-> second_incl]

Ranges == [first : Raw, second : Raw, first_incl : BOOL, second_incl : BOOL]

\* Angle.__init__: an Angle is its stored radian value
Angle(rad_value) == rad_value

\* "no operand yet" markers for the argument slots
NoRange == [none |-> TRUE]
NoAngle == TwoPi + RawExt + 1

\* Angle objects are modelled on a finer grid, fine enough to see the
\* tolerance of Angle.__eq__: one full turn is FineTurn units, the tolerance
\* abs_tol is AbsTol units and a floating-point operation is off by at most
\* RoundErr units (far below the tolerance in the program, never above it
\* here).
FineTurn == 8
AbsTol == 1
RoundErr == 1

\* most full turns added to an Angle
MaxTurns == 2

AngleVals == (0 - FineTurn) .. (2 * FineTurn)

\* marker for "no Angle object in this run"
NoAngleObject == 3 * FineTurn + 1

VARIABLES
    self,     \* the receiver AngleRange
    other,    \* the AngleRange argument of the last operation, or NoRange
    angle,    \* the Angle argument of the last operation, or NoAngle
    op,       \* which operation ran last
    result,   \* the list returned by + or - (empty after another operation)
    answer,   \* the boolean returned by `in` or by a comparison
    value,    \* the number returned by abs() or the new Angle of an arithmetic
    lhs,      \* an Angle object: its stored radians (left operand, receiver)
    rhs,      \* an Angle object: its stored radians (right operand)
    buffer,       \* Keyboard.buffer.content (lab6.py), a sequence of characters
    printed_sq,   \* Keyboard.printed_sq (test.py), a sequence of characters
    undo_stack,   \* Keyboard.undo_stack, a sequence of command keys
    redo_stack,   \* Keyboard.redo_stack, a sequence of command keys
    registry,     \* DependencyInjector._registry: the lifecycle of each type
    scopes,       \* DependencyInjector._scopes: the stack of scope dicts
    singletons,   \* DependencyInjector._singletons: type -> instance
    allocated,    \* how many objects exist: the next one gets the next identity
    resolved,     \* what the caller got from each resolve call so far
    users,        \* the user repository file: the ids of the stored users
    sessions,     \* the session file: the user_id of each stored record
    session_data, \* AuthService._session_data: a user_id, or NoSession
    user          \* the id of the User passed to the last sign_in or sign_out

rangeVars == <<self, other, angle, op, result, answer>>
angleVars == <<value, lhs, rhs>>
keyboardVars == <<buffer, printed_sq, undo_stack, redo_stack>>
injectorVars == <<registry, scopes, singletons, allocated, resolved>>
authVars == <<users, sessions, session_data, user>>

vars == <<self, other, angle, op, result, answer, value, lhs, rhs,
          buffer, printed_sq, undo_stack, redo_stack,
          registry, scopes, singletons, allocated, resolved,
          users, sessions, session_data, user>>

----------------------------------------------------------------------------
(* Angle *)

\* the raw value taken as it is, without reduction
Mod2Pi_Raw(x) == x

\* x % (2 * pi)
Mod2Pi(x) == x % TwoPi

\* Angle.__eq__ : isclose of the reduced values (exact on the grid)
AngleEq(x, y) == Mod2Pi(x) = Mod2Pi(y)

----------------------------------------------------------------------------
(* Angle objects on the fine grid *)

\* self._value % (2 * pi)
FineMod(x) == x % FineTurn

\* math.isclose(a, b, abs_tol=1e-9) on reduced values: the relative term of
\* isclose is at most 2*pi*1e-9 there, the order of abs_tol, and is folded
\* into AbsTol
IsClose(a, b) == IF a >= b THEN a - b <= AbsTol ELSE b - a <= AbsTol

\* Angle.__eq__
Angle_eq(x, y) == IsClose(FineMod(x), FineMod(y))

\* Angle.__ne__
Angle_ne(x, y) == ~Angle_eq(x, y)

\* Angle.__lt__
Angle_lt(x, y) == FineMod(x) < FineMod(y)

\* Angle.__le__
Angle_le(x, y) == Angle_eq(x, y) \/ Angle_lt(x, y)

\* Angle.__gt__
Angle_gt(x, y) == FineMod(x) > FineMod(y)

\* Angle.__ge__
Angle_ge(x, y) == Angle_eq(x, y) \/ Angle_gt(x, y)

\* Angle.__add__ / __radd__ : the radians of the new Angle
Angle_add(x, y) == x + y

\* Angle.__sub__
Angle_sub(x, y) == x - y

\* Angle.__rsub__ : scalar - angle
Angle_rsub(x, scalar) == scalar - x

\* Angle.__mul__ / __rmul__
Angle_mul(x, multiplier) == x * multiplier

\* Angle.__truediv__ : the quotient, rounded down to the grid
Angle_truediv(x, denominator) == x \div denominator

\* Angle.from_degree / the degree setter: deg * (pi / 180), rounded to the grid
FromDegree(deg_value) == (deg_value * FineTurn) \div 360

----------------------------------------------------------------------------
(* AngleRange: length, equality, from_angle *)

\* AngleRange.from_angle
from_angle(ang) == AngleRange(0, ang, TRUE, TRUE)

\* __abs__ without the wrap-around branch
Abs_NoWrap(r) == r.second - r.first

\* AngleRange.__abs__
Abs(r) ==
    IF r.first <= r.second
    THEN r.second - r.first
    ELSE (TwoPi - r.first) + r.second

\* __eq__ comparing the raw endpoints instead of the reduced Angles
RangeEq_Raw(r, o) ==
    /\ Abs(r) = Abs(o)
    /\ r.second = o.second
    /\ r.first = o.first

\* AngleRange.__eq__
RangeEq(r, o) ==
    /\ Abs(r) = Abs(o)
    /\ AngleEq(Angle(r.second), Angle(o.second))
    /\ AngleEq(Angle(r.first), Angle(o.first))

\* != that also tells ranges apart by their inclusive flags
RangeNe_Flags(r, o) ==
    \/ ~RangeEq(r, o)
    \/ r.first_incl # o.first_incl
    \/ r.second_incl # o.second_incl

\* AngleRange.__ne__
RangeNe(r, o) == ~RangeEq(r, o)

\* AngleRange.__lt__
RangeLt(r, o) == Abs(r) < Abs(o)

\* __le__ written with the strict comparison
RangeLe_Strict(r, o) == Abs(r) < Abs(o)

\* AngleRange.__le__
RangeLe(r, o) == Abs(r) <= Abs(o)

\* AngleRange.__gt__
RangeGt(r, o) == Abs(r) > Abs(o)

\* AngleRange.__ge__
RangeGe(r, o) == Abs(r) >= Abs(o)

----------------------------------------------------------------------------
(* AngleRange.__contains__ *)

\* less_eq with the inclusivity flag dropped: equality always counts
less_eq_NoFlag(x, y, inc) == x <= y

less_eq(x, y, inc) == x < y \/ (inc /\ x = y)

\* greater_eq with the inclusivity flag dropped: equality always counts
greater_eq_NoFlag(x, y, inc) == x >= y

greater_eq(x, y, inc) == x > y \/ (inc /\ x = y)

\* the AngleRange branch of __contains__
ContainsRange(r, elem) ==
    IF Abs(elem) > Abs(r) THEN FALSE
    ELSE
      LET f1 == r.first
          s1 == r.second
          f2 == elem.first
          s2 == elem.second
          ok_start == greater_eq(f2, f1, r.first_incl /\ elem.first_incl)
          ok_end   == less_eq(s2, s1, r.second_incl /\ elem.second_incl)
      IN  IF f1 <= s1
          THEN IF f2 <= s2
               THEN ok_start /\ ok_end
               ELSE LET len1 == s1 - f1
                        len2 == f2 + s2
                    IN  /\ len1 = len2
                        /\ len1 % TwoPi = 0
                        /\ r.first_incl /\ r.second_incl
                        /\ elem.second_incl /\ elem.first_incl
          ELSE IF f2 <= s2
               THEN ok_start \/ ok_end
               ELSE ok_start /\ ok_end

\* the Angle branch of __contains__
ContainsAngle(r, ang) == ContainsRange(r, from_angle(ang))

----------------------------------------------------------------------------
(* segment decomposition shared by __add__ and __sub__ *)

\* a segment is the tuple (start, end, start_inc, end_inc)
Segs(r) ==
    LET a1 == Mod2Pi(r.first)
        b1 == Mod2Pi(r.second)
    IN  IF a1 <= b1
        THEN << <<a1, b1, r.first_incl, r.second_incl>> >>
        ELSE << <<a1, TwoPi, r.first_incl, TRUE>>,
                <<0, b1, TRUE, r.second_incl>> >>

\* AngleRange built from a segment tuple
OfSeg(t) == AngleRange(t[1], t[2], t[3], t[4])

----------------------------------------------------------------------------
(* AngleRange.__add__ *)

\* list.sort(key=lambda t: t[0]) is stable: t goes after every element
\* whose key is not greater
RECURSIVE InsertByStart(_, _)
InsertByStart(t, sorted) ==
    IF sorted = <<>> THEN <<t>>
    ELSE IF Head(sorted)[1] <= t[1]
         THEN <<Head(sorted)>> \o InsertByStart(t, Tail(sorted))
         ELSE <<t>> \o sorted

RECURSIVE SortByStart(_)
SortByStart(segs) ==
    IF segs = <<>> THEN <<>>
    ELSE InsertByStart(segs[Len(segs)], SortByStart(SubSeq(segs, 1, Len(segs) - 1)))

\* Touches without the equal-endpoint case: only a proper overlap merges
Touches_Strict(cur, t) == t[1] < cur[2]

\* the test that extends the running segment
Touches(cur, t) == t[1] < cur[2] \/ (t[1] = cur[2] /\ (cur[4] \/ t[3]))

\* Extend that never moves the end of the running segment
Extend_Never(cur, t) == cur

\* the running segment after absorbing t
Extend(cur, t) ==
    IF t[2] > cur[2] \/ (t[2] = cur[2] /\ t[4])
    THEN <<cur[1], t[2], cur[3], t[4]>>
    ELSE cur

\* the sweep loop and the final append
RECURSIVE Sweep(_, _, _)
Sweep(cur, rest, res_segs) ==
    IF rest = <<>> THEN Append(res_segs, OfSeg(cur))
    ELSE IF Touches(cur, Head(rest))
         THEN Sweep(Extend(cur, Head(rest)), Tail(rest), res_segs)
         ELSE Sweep(Head(rest), Tail(rest), Append(res_segs, OfSeg(cur)))

Add(r, o) ==
    LET all_segs == SortByStart(Segs(r) \o Segs(o))
    IN  Sweep(Head(all_segs), Tail(all_segs), <<>>)

----------------------------------------------------------------------------
(* AngleRange.__sub__ *)

\* Apart without the test for a piece that ends before s starts
Apart_NoGapBefore(t, s) ==
    \/ (t[2] = s[1] /\ ~(t[4] /\ s[3]))
    \/ t[1] > s[2]
    \/ (t[1] = s[2] /\ ~(t[3] /\ s[4]))

\* the piece t does not meet the subtrahend segment s
Apart(t, s) ==
    \/ t[2] < s[1]
    \/ (t[2] = s[1] /\ ~(t[4] /\ s[3]))
    \/ t[1] > s[2]
    \/ (t[1] = s[2] /\ ~(t[3] /\ s[4]))

\* Before that keeps the cut inclusive when the subtrahend's start is
Before_KeepsCut(t, s) ==
    IF t[1] < s[1] \/ (t[1] = s[1] /\ t[3] /\ ~s[3])
    THEN << <<t[1], s[1], t[3], s[3]>> >>
    ELSE <<>>

\* the remainder of t kept before the start of s
Before(t, s) ==
    IF t[1] < s[1] \/ (t[1] = s[1] /\ t[3] /\ ~s[3])
    THEN << <<t[1], s[1], t[3], ~s[3]>> >>
    ELSE <<>>

\* After that keeps the cut inclusive when the subtrahend's end is
After_KeepsCut(t, s) ==
    IF t[2] > s[2] \/ (t[2] = s[2] /\ t[4] /\ ~s[4])
    THEN << <<s[2], t[2], s[4], t[4]>> >>
    ELSE <<>>

\* the remainder of t kept after the end of s
After(t, s) ==
    IF t[2] > s[2] \/ (t[2] = s[2] /\ t[4] /\ ~s[4])
    THEN << <<s[2], t[2], ~s[4], t[4]>> >>
    ELSE <<>>

\* what one piece contributes to new_temp
Carve(t, s) == IF Apart(t, s) THEN <<t>> ELSE Before(t, s) \o After(t, s)

\* one pass of the loop over temp for the subtrahend segment s
RECURSIVE SubPass(_, _)
SubPass(temp, s) ==
    IF temp = <<>> THEN <<>>
    ELSE Carve(Head(temp), s) \o SubPass(Tail(temp), s)

\* the loop over segs2: each pass feeds the next
RECURSIVE SubAll(_, _)
SubAll(temp, segs2) ==
    IF segs2 = <<>> THEN temp
    ELSE SubAll(SubPass(temp, Head(segs2)), Tail(segs2))

\* the loop over segs1, extending final
RECURSIVE SubSegs(_, _)
SubSegs(segs1, segs2) ==
    IF segs1 = <<>> THEN <<>>
    ELSE LET temp == SubAll(<<Head(segs1)>>, segs2)
         IN  [i \in 1..Len(temp) |-> OfSeg(temp[i])] \o SubSegs(Tail(segs1), segs2)

Sub(r, o) == SubSegs(Segs(r), Segs(o))

----------------------------------------------------------------------------
(* the state machine: a receiver range and the operations applied to it *)

\* the Angle objects and the Keyboard are not part of a run on ranges
NoAngleObjects == value = 0 /\ lhs = NoAngleObject /\ rhs = NoAngleObject

NoKeyboard ==
    buffer = <<>> /\ printed_sq = <<>> /\ undo_stack = <<>> /\ redo_stack = <<>>

\* no DependencyInjector and no AuthService either
NoInjector ==
    /\ registry = <<>>
    /\ scopes = <<>>
    /\ singletons = <<>>
    /\ allocated = 0
    /\ resolved = <<>>

\* AuthService._session_data is None
NoSession == 0

NoAuth == users = {} /\ sessions = <<>> /\ session_data = NoSession /\ user = 0

Init ==
    /\ self \in Ranges
    /\ other = NoRange
    /\ angle = NoAngle
    /\ op = "new"
    /\ result = <<>>
    /\ answer = FALSE
    /\ NoAngleObjects
    /\ NoKeyboard
    /\ NoInjector
    /\ NoAuth

\* self + o on freshly constructed operands
DoAdd ==
    /\ op = "new"
    /\ \E o \in Ranges :
          /\ other' = o
          /\ result' = Add(self, o)
    /\ op' = "add"
    /\ angle' = NoAngle
    /\ answer' = FALSE
    /\ UNCHANGED self
    /\ UNCHANGED <<angleVars, keyboardVars, injectorVars, authVars>>

\* self - o on freshly constructed operands
DoSub ==
    /\ op = "new"
    /\ \E o \in Ranges :
          /\ other' = o
          /\ result' = Sub(self, o)
    /\ op' = "sub"
    /\ angle' = NoAngle
    /\ answer' = FALSE
    /\ UNCHANGED self
    /\ UNCHANGED <<angleVars, keyboardVars, injectorVars, authVars>>

\* elem in self, elem an AngleRange
DoContainsRange ==
    /\ op = "new"
    /\ \E elem \in Ranges :
          /\ other' = elem
          /\ answer' = ContainsRange(self, elem)
    /\ op' = "contains"
    /\ angle' = NoAngle
    /\ result' = <<>>
    /\ UNCHANGED self
    /\ UNCHANGED <<angleVars, keyboardVars, injectorVars, authVars>>

\* p in self, p an Angle
DoContainsAngle ==
    /\ op = "new"
    /\ \E p \in Raw :
          /\ angle' = Angle(p)
          /\ answer' = ContainsAngle(self, Angle(p))
    /\ op' = "contains_angle"
    /\ other' = NoRange
    /\ result' = <<>>
    /\ UNCHANGED self
    /\ UNCHANGED <<angleVars, keyboardVars, injectorVars, authVars>>

Next == DoAdd \/ DoSub \/ DoContainsRange \/ DoContainsAngle

Spec == Init /\ [][Next]_vars

----------------------------------------------------------------------------
(* operations on operands that exist before the call: two AngleRange        *)
(* objects self and other, or two Angle objects lhs and rhs                 *)

InitOperands ==
    /\ angle = NoAngle
    /\ op = "new"
    /\ result = <<>>
    /\ answer = FALSE
    /\ value = 0
    /\ NoKeyboard
    /\ NoInjector
    /\ NoAuth
    /\ \/ /\ self \in Ranges
          /\ other \in Ranges
          /\ lhs = NoAngleObject
          /\ rhs = NoAngleObject
       \/ /\ self = NoRange
          /\ other = NoRange
          /\ lhs \in AngleVals
          /\ rhs \in AngleVals

\* a method of AngleRange called on self with argument other: it returns and
\* assigns no field of either operand
RangeCall(name, ans, res, val) ==
    /\ op' = name
    /\ answer' = ans
    /\ result' = res
    /\ value' = val
    /\ UNCHANGED <<self, other>>
    /\ UNCHANGED <<angle, lhs, rhs, keyboardVars, injectorVars, authVars>>

\* abs(self)
RangeOpAbs ==
    /\ op = "new"
    /\ self # NoRange
    /\ RangeCall("abs", FALSE, <<>>, Abs(self))

\* self == other
RangeOpEq ==
    /\ op = "new"
    /\ self # NoRange
    /\ RangeCall("eq", RangeEq(self, other), <<>>, 0)

\* self != other
RangeOpNe ==
    /\ op = "new"
    /\ self # NoRange
    /\ RangeCall("ne", RangeNe(self, other), <<>>, 0)

\* self < other
RangeOpLt ==
    /\ op = "new"
    /\ self # NoRange
    /\ RangeCall("lt", RangeLt(self, other), <<>>, 0)

\* self <= other
RangeOpLe ==
    /\ op = "new"
    /\ self # NoRange
    /\ RangeCall("le", RangeLe(self, other), <<>>, 0)

\* self > other
RangeOpGt ==
    /\ op = "new"
    /\ self # NoRange
    /\ RangeCall("gt", RangeGt(self, other), <<>>, 0)

\* self >= other
RangeOpGe ==
    /\ op = "new"
    /\ self # NoRange
    /\ RangeCall("ge", RangeGe(self, other), <<>>, 0)

\* other in self
RangeOpContains ==
    /\ op = "new"
    /\ self # NoRange
    /\ RangeCall("contains", ContainsRange(self, other), <<>>, 0)

\* self + other
RangeOpAdd ==
    /\ op = "new"
    /\ self # NoRange
    /\ RangeCall("add", FALSE, Add(self, other), 0)

\* self - other
RangeOpSub ==
    /\ op = "new"
    /\ self # NoRange
    /\ RangeCall("sub", FALSE, Sub(self, other), 0)

\* scalars an Angle is combined with, and degree values given to the setter
Scalars == (0 - MaxTurns) .. MaxTurns

DegreeVals == {45 * d : d \in (0 - FineTurn) .. (2 * FineTurn)}

\* a method of Angle called on lhs: it returns and assigns no field of
\* either Angle
AngleCall(name, ans, val) ==
    /\ op' = name
    /\ answer' = ans
    /\ value' = val
    /\ UNCHANGED <<lhs, rhs>>
    /\ UNCHANGED <<self, other, angle, result, keyboardVars, injectorVars, authVars>>

\* lhs == rhs
AngleOpEq ==
    /\ op = "new"
    /\ lhs # NoAngleObject
    /\ AngleCall("angle_eq", Angle_eq(lhs, rhs), 0)

\* lhs != rhs
AngleOpNe ==
    /\ op = "new"
    /\ lhs # NoAngleObject
    /\ AngleCall("angle_ne", Angle_ne(lhs, rhs), 0)

\* lhs < rhs, lhs <= rhs, lhs > rhs, lhs >= rhs
AngleOpLt ==
    /\ op = "new"
    /\ lhs # NoAngleObject
    /\ AngleCall("angle_lt", Angle_lt(lhs, rhs), 0)

AngleOpLe ==
    /\ op = "new"
    /\ lhs # NoAngleObject
    /\ AngleCall("angle_le", Angle_le(lhs, rhs), 0)

AngleOpGt ==
    /\ op = "new"
    /\ lhs # NoAngleObject
    /\ AngleCall("angle_gt", Angle_gt(lhs, rhs), 0)

AngleOpGe ==
    /\ op = "new"
    /\ lhs # NoAngleObject
    /\ AngleCall("angle_ge", Angle_ge(lhs, rhs), 0)

\* lhs + rhs with rhs made the receiver's own sum: what an in-place add
\* would do
AngleOpAdd_InPlace ==
    /\ op = "new"
    /\ lhs # NoAngleObject
    /\ op' = "angle_add"
    /\ answer' = FALSE
    /\ value' = Angle_add(lhs, rhs)
    /\ lhs' = Angle_add(lhs, rhs)
    /\ UNCHANGED rhs
    /\ UNCHANGED <<self, other, angle, result, keyboardVars, injectorVars, authVars>>

\* lhs + rhs
AngleOpAdd ==
    /\ op = "new"
    /\ lhs # NoAngleObject
    /\ AngleCall("angle_add", FALSE, Angle_add(lhs, rhs))

\* lhs - rhs
AngleOpSub ==
    /\ op = "new"
    /\ lhs # NoAngleObject
    /\ AngleCall("angle_sub", FALSE, Angle_sub(lhs, rhs))

\* lhs + scalar, scalar + lhs
AngleOpAddScalar ==
    /\ op = "new"
    /\ lhs # NoAngleObject
    /\ \E k \in Scalars : AngleCall("angle_add_scalar", FALSE, Angle_add(lhs, k))

\* lhs - scalar
AngleOpSubScalar ==
    /\ op = "new"
    /\ lhs # NoAngleObject
    /\ \E k \in Scalars : AngleCall("angle_sub_scalar", FALSE, Angle_sub(lhs, k))

\* scalar - lhs
AngleOpRsub ==
    /\ op = "new"
    /\ lhs # NoAngleObject
    /\ \E k \in Scalars : AngleCall("angle_rsub", FALSE, Angle_rsub(lhs, k))

\* lhs * multiplier, multiplier * lhs
AngleOpMul ==
    /\ op = "new"
    /\ lhs # NoAngleObject
    /\ \E k \in Scalars : AngleCall("angle_mul", FALSE, Angle_mul(lhs, k))

\* lhs / denominator; a zero denominator raises ZeroDivisionError
AngleOpDiv ==
    /\ op = "new"
    /\ lhs # NoAngleObject
    /\ \E k \in Scalars \ {0} : AngleCall("angle_div", FALSE, Angle_truediv(lhs, k))

\* lhs.radian = val
AngleSetRadian ==
    /\ op = "new"
    /\ lhs # NoAngleObject
    /\ \E val \in AngleVals : lhs' = val
    /\ op' = "set_radian"
    /\ UNCHANGED <<rhs, answer, value>>
    /\ UNCHANGED <<self, other, angle, result, keyboardVars, injectorVars, authVars>>

\* lhs.degree = val
AngleSetDegree ==
    /\ op = "new"
    /\ lhs # NoAngleObject
    /\ \E val \in DegreeVals : lhs' = FromDegree(val)
    /\ op' = "set_degree"
    /\ UNCHANGED <<rhs, answer, value>>
    /\ UNCHANGED <<self, other, angle, result, keyboardVars, injectorVars, authVars>>

NextOperands ==
    \/ RangeOpAbs \/ RangeOpEq \/ RangeOpNe
    \/ RangeOpLt \/ RangeOpLe \/ RangeOpGt \/ RangeOpGe
    \/ RangeOpContains \/ RangeOpAdd \/ RangeOpSub
    \/ AngleOpEq \/ AngleOpNe
    \/ AngleOpLt \/ AngleOpLe \/ AngleOpGt \/ AngleOpGe
    \/ AngleOpAdd \/ AngleOpSub
    \/ AngleOpAddScalar \/ AngleOpSubScalar \/ AngleOpRsub
    \/ AngleOpMul \/ AngleOpDiv
    \/ AngleSetRadian \/ AngleSetDegree

SpecOperands == InitOperands /\ [][NextOperands]_vars

----------------------------------------------------------------------------
(* the Keyboard: a text buffer and the undo and redo stacks of command keys *)

\* longest history a run builds
MaxHistory == 4

\* keys bound to KeyCommand objects: the letters
Letters == {"a", "b", "c"}

\* keys bound to commands that print no character
NonPrinting == {"ctrl++", "ctrl+m"}

\* Keyboard.commands: the key pressed, mapped to the class of its command
commands ==
    [key \in Letters \cup NonPrinting |->
        IF key \in Letters THEN "KeyCommand"
        ELSE IF key = "ctrl++" THEN "VolumeUpCommand" ELSE "Beep"]

\* the keys a caller may pass to do: the registered ones and one that is not
Pressed == DOMAIN commands \cup {"f1"}

\* Text.add
TextAdd(content, char) == Append(content, char)

\* Text.remove_last that leaves the content as it is
TextRemoveLast_Keep(content) == content

\* Text.remove_last
TextRemoveLast(content) ==
    IF content # <<>> THEN SubSeq(content, 1, Len(content) - 1) ELSE content

\* Command.execute on the buffer: only a KeyCommand adds its key
Execute(command_key, content) ==
    IF commands[command_key] = "KeyCommand"
    THEN TextAdd(content, command_key)
    ELSE content

\* Command.cancel on the buffer: only a KeyCommand removes a character
Cancel(command_key, content) ==
    IF commands[command_key] = "KeyCommand"
    THEN TextRemoveLast(content)
    ELSE content

\* Command.is_printed of the older Keyboard
is_printed(command_key) == commands[command_key] = "KeyCommand"

\* the older Keyboard's text after executing a command
PrintedExecute(command_key, sq) ==
    IF is_printed(command_key) THEN sq \o <<command_key>> ELSE sq

\* the older Keyboard's text after cancelling a command: printed_sq[:-1]
PrintedCancel(command_key, sq) ==
    IF is_printed(command_key)
    THEN SubSeq(sq, 1, IF Len(sq) > 0 THEN Len(sq) - 1 ELSE 0)
    ELSE sq

\* list.pop(): the last entry, and the list without it
Top(stack) == stack[Len(stack)]
Popped(stack) == SubSeq(stack, 1, Len(stack) - 1)

\* a Keyboard after construction and init_commands
InitKeyboard ==
    /\ self = NoRange
    /\ other = NoRange
    /\ angle = NoAngle
    /\ op = "new"
    /\ result = <<>>
    /\ answer = FALSE
    /\ NoAngleObjects
    /\ NoKeyboard
    /\ NoInjector
    /\ NoAuth

\* Keyboard.do that leaves the redo stack as it is
KeyboardDo_KeepsRedo ==
    /\ Len(undo_stack) < MaxHistory
    /\ \E command_key \in Pressed :
          IF command_key \notin DOMAIN commands
          THEN /\ op' = "do_not_found"
               /\ UNCHANGED keyboardVars
          ELSE /\ op' = "do"
               /\ buffer' = Execute(command_key, buffer)
               /\ printed_sq' = PrintedExecute(command_key, printed_sq)
               /\ undo_stack' = Append(undo_stack, command_key)
               /\ UNCHANGED redo_stack
    /\ UNCHANGED <<self, other, angle, result, answer, angleVars>>
    /\ UNCHANGED <<injectorVars, authVars>>

\* Keyboard.do(command_key); op records the call, and whether the key was
\* found
KeyboardDo ==
    /\ Len(undo_stack) < MaxHistory
    /\ \E command_key \in Pressed :
          IF command_key \notin DOMAIN commands
          THEN /\ op' = "do_not_found"
               /\ UNCHANGED keyboardVars
          ELSE /\ op' = "do"
               /\ buffer' = Execute(command_key, buffer)
               /\ printed_sq' = PrintedExecute(command_key, printed_sq)
               /\ undo_stack' = Append(undo_stack, command_key)
               /\ redo_stack' = <<>>
    /\ UNCHANGED <<self, other, angle, result, answer, angleVars>>
    /\ UNCHANGED <<injectorVars, authVars>>

\* Keyboard.undo()
KeyboardUndo ==
    /\ op' = "undo"
    /\ IF undo_stack = <<>>
       THEN UNCHANGED keyboardVars
       ELSE LET command_key == Top(undo_stack) IN
            /\ undo_stack' = Popped(undo_stack)
            /\ buffer' = Cancel(command_key, buffer)
            /\ printed_sq' = PrintedCancel(command_key, printed_sq)
            /\ redo_stack' = Append(redo_stack, command_key)
    /\ UNCHANGED <<self, other, angle, result, answer, angleVars>>
    /\ UNCHANGED <<injectorVars, authVars>>

\* Keyboard.redo()
KeyboardRedo ==
    /\ op' = "redo"
    /\ IF redo_stack = <<>>
       THEN UNCHANGED keyboardVars
       ELSE LET command_key == Top(redo_stack) IN
            /\ redo_stack' = Popped(redo_stack)
            /\ buffer' = Execute(command_key, buffer)
            /\ printed_sq' = PrintedExecute(command_key, printed_sq)
            /\ undo_stack' = Append(undo_stack, command_key)
    /\ UNCHANGED <<self, other, angle, result, answer, angleVars>>
    /\ UNCHANGED <<injectorVars, authVars>>

NextKeyboard == KeyboardDo \/ KeyboardUndo \/ KeyboardRedo

SpecKeyboard == InitKeyboard /\ [][NextKeyboard]_vars

----------------------------------------------------------------------------
(* the DependencyInjector: registrations, scopes and the instances it hands *)
(* out; an instance is known by its identity, the rank of its creation      *)

\* how many resolve calls a run makes
MaxResolves == 3

\* no scope is opened once this many objects exist
MaxObjects == 4

\* Lifecycle
Lifecycles == {"Transient", "Scoped", "Singleton"}

\* the registered types
Abstracts == {"ILogger", "IDataRepository"}

\* the types a caller asks for: the registered ones and one that is not
Requested == Abstracts \cup {"IPayment"}

\* the annotated constructor parameters of each implementation, in the order
\* of the signature: ConsoleLogger() has none, MemoryRepository(logger) has
\* the logger
parameters ==
    [abstract \in Abstracts |->
        IF abstract = "ILogger" THEN <<>> ELSE <<"ILogger">>]

\* no instance: a key absent from a dict, or a call that raised
NoInstance == 0

\* a dict from type to instance with no key
EmptyDict == [abstract \in Abstracts |-> NoInstance]

\* the injector's mutable fields as one value passed through a call
Fields == [singletons |-> singletons, scopes |-> scopes, allocated |-> allocated]

\* the call raised: nothing is returned, the fields stay as they are by then
Raised(st) == [instance |-> NoInstance, st |-> st]

\* the call returned instance
Returned(instance, st) == [instance |-> instance, st |-> st]

\* _get_current_scope: the identity of the innermost scope dict, if any
CurrentScope(stack) == IF stack = <<>> THEN NoInstance ELSE stack[Len(stack)].dict

RECURSIVE Resolve(_, _)
RECURSIVE ResolveParameters(_, _)
RECURSIVE construct_instance(_, _)

\* the loop of _construct_instance over the parameters: each registered
\* annotation is resolved in turn, and the first one that raises ends the loop
ResolveParameters(params, st) ==
    IF params = <<>> THEN [raised |-> FALSE, st |-> st]
    ELSE LET r == Resolve(Head(params), st)
         IN  IF r.instance = NoInstance
             THEN [raised |-> TRUE, st |-> r.st]
             ELSE ResolveParameters(Tail(params), r.st)

\* _construct_instance: the arguments first, then the new object
construct_instance(abstract, st) ==
    LET args == ResolveParameters(parameters[abstract], st)
    IN  IF args.raised THEN Raised(args.st)
        ELSE Returned(args.st.allocated + 1,
                      [args.st EXCEPT !.allocated = @ + 1])

\* SCOPED branch of resolve that builds a new instance on every call
ResolveScoped_Fresh(abstract, st) ==
    IF st.scopes = <<>> THEN Raised(st)
    ELSE construct_instance(abstract, st)

\* SCOPED branch of resolve
ResolveScoped(abstract, st) ==
    IF st.scopes = <<>> THEN Raised(st)
    ELSE IF st.scopes[Len(st.scopes)].held[abstract] # NoInstance
         THEN Returned(st.scopes[Len(st.scopes)].held[abstract], st)
         ELSE LET made == construct_instance(abstract, st)
              IN  IF made.instance = NoInstance THEN made
                  ELSE Returned(made.instance,
                           [made.st EXCEPT
                               !.scopes[Len(made.st.scopes)].held[abstract] =
                                   made.instance])

\* SINGLETON branch of resolve
ResolveSingleton(abstract, st) ==
    IF st.singletons[abstract] # NoInstance
    THEN Returned(st.singletons[abstract], st)
    ELSE LET made == construct_instance(abstract, st)
         IN  IF made.instance = NoInstance THEN made
             ELSE Returned(made.instance,
                           [made.st EXCEPT !.singletons[abstract] = made.instance])

\* DependencyInjector.resolve
Resolve(abstract, st) ==
    IF abstract \notin DOMAIN registry THEN Raised(st)
    ELSE IF registry[abstract] = "Singleton" THEN ResolveSingleton(abstract, st)
    ELSE IF registry[abstract] = "Scoped" THEN ResolveScoped(abstract, st)
    ELSE construct_instance(abstract, st)

\* a DependencyInjector after the three register calls, with any lifecycles
InitInjector ==
    /\ self = NoRange
    /\ other = NoRange
    /\ angle = NoAngle
    /\ op = "new"
    /\ result = <<>>
    /\ answer = FALSE
    /\ NoAngleObjects
    /\ NoKeyboard
    /\ NoAuth
    /\ registry \in [Abstracts -> Lifecycles]
    /\ scopes = <<>>
    /\ singletons = EmptyDict
    /\ allocated = 0
    /\ resolved = <<>>

\* DependencyScope.__enter__ : _enter_scope pushes a new dict
EnterScope ==
    /\ allocated < MaxObjects
    /\ scopes' = Append(scopes, [dict |-> allocated + 1, held |-> EmptyDict])
    /\ allocated' = allocated + 1
    /\ UNCHANGED <<registry, singletons, resolved>>
    /\ UNCHANGED <<rangeVars, angleVars>>
    /\ UNCHANGED <<keyboardVars, authVars>>

\* DependencyScope.__exit__ : _exit_scope pops the innermost dict, if any
ExitScope ==
    /\ scopes' = IF scopes # <<>> THEN SubSeq(scopes, 1, Len(scopes) - 1)
                 ELSE scopes
    /\ UNCHANGED <<registry, singletons, allocated, resolved>>
    /\ UNCHANGED <<rangeVars, angleVars>>
    /\ UNCHANGED <<keyboardVars, authVars>>

\* a call of resolve by client code, which keeps what it got: the type asked
\* for, the instance returned (NoInstance if the call raised) and the scope
\* the call was made in
ResolveCall ==
    /\ Len(resolved) < MaxResolves
    /\ \E abstract \in Requested :
          LET r == Resolve(abstract, Fields) IN
          /\ singletons' = r.st.singletons
          /\ scopes' = r.st.scopes
          /\ allocated' = r.st.allocated
          /\ resolved' = Append(resolved,
                                [abstract |-> abstract,
                                 instance |-> r.instance,
                                 scope |-> CurrentScope(scopes)])
    /\ UNCHANGED registry
    /\ UNCHANGED <<rangeVars, angleVars>>
    /\ UNCHANGED <<keyboardVars, authVars>>

NextInjector == EnterScope \/ ExitScope \/ ResolveCall

SpecInjector == InitInjector /\ [][NextInjector]_vars

----------------------------------------------------------------------------
(* the AuthService: the user repository, the session file and the session  *)
(* kept in memory; users and session records are known by their id         *)

\* how many users there are
MaxUsers == 4

\* the ids of the User objects a caller may pass
AllUsers == 1 .. MaxUsers

\* DataRepository.get_by_id on the records of a file: found or not
HasId(file, id) == \E i \in 1..Len(file) : file[i] = id

\* DataRepository.add: the record is appended unless its id is already there
RepoAdd(file, id) == IF HasId(file, id) THEN file ELSE Append(file, id)

\* DataRepository.delete that writes the file back as it read it
RepoDelete_Keep(file, id) == file

\* DataRepository.delete: every record with this id is dropped
RepoDelete(file, id) == SelectSeq(file, LAMBDA item : item # id)

\* AuthService._restore_session: the last record of the file, if any
RestoreSession(file) == IF file # <<>> THEN file[Len(file)] ELSE NoSession

\* AuthService.is_authorized
is_authorized == session_data # NoSession

\* an AuthService built over an empty session file and a user repository that
\* holds some of the users
InitAuth ==
    /\ self = NoRange
    /\ other = NoRange
    /\ angle = NoAngle
    /\ op = "new"
    /\ result = <<>>
    /\ answer = FALSE
    /\ NoAngleObjects
    /\ NoKeyboard
    /\ NoInjector
    /\ users \in SUBSET AllUsers
    /\ sessions = <<>>
    /\ session_data = RestoreSession(sessions)
    /\ user = 0

\* AuthService.sign_in(u)
SignIn ==
    /\ \E u \in AllUsers :
          /\ user' = u
          /\ IF is_authorized THEN UNCHANGED <<sessions, session_data>>
             ELSE IF u \notin users THEN UNCHANGED <<sessions, session_data>>
             ELSE /\ session_data' = u
                  /\ sessions' = RepoAdd(sessions, u)
    /\ op' = "sign_in"
    /\ UNCHANGED users
    /\ UNCHANGED <<self, other, angle, result, answer, angleVars>>
    /\ UNCHANGED <<keyboardVars, injectorVars>>

\* AuthService.sign_out(u)
SignOut ==
    /\ \E u \in AllUsers :
          /\ user' = u
          /\ IF ~is_authorized THEN UNCHANGED <<sessions, session_data>>
             ELSE IF session_data # u THEN UNCHANGED <<sessions, session_data>>
             ELSE /\ sessions' = RepoDelete(sessions, u)
                  /\ session_data' = NoSession
    /\ op' = "sign_out"
    /\ UNCHANGED users
    /\ UNCHANGED <<self, other, angle, result, answer, angleVars>>
    /\ UNCHANGED <<keyboardVars, injectorVars>>

NextAuth == SignIn \/ SignOut

SpecAuth == InitAuth /\ [][NextAuth]_vars

----------------------------------------------------------------------------
(* points of the circle, used to state what a range or a result list holds *)

\* The circle is probed on a grid twice as fine as the endpoints: the point
\* 2*v is the grid value v, the point 2*v + 1 stands for the open arc between
\* the grid values v and v + 1.
Points == 0 .. (2 * TwoPi - 1)

\* both raw endpoints lie in [0, 2*pi]
InTurn(r) == r.first \in 0..TwoPi /\ r.second \in 0..TwoPi

\* q lies on the arc of r unrolled on the line: from first to second, or to
\* second + 2*pi when the range wraps; an endpoint counts only if inclusive
OnArc(q, r) ==
    LET lo == 2 * r.first
        hi == IF r.first <= r.second THEN 2 * r.second
              ELSE 2 * r.second + 2 * TwoPi
    IN  /\ lo < q \/ (lo = q /\ r.first_incl)
        /\ q < hi \/ (q = hi /\ r.second_incl)

\* the point p of the circle (taken mod 2*pi) belongs to the range r
Member(p, r) == OnArc(p, r) \/ OnArc(p + 2 * TwoPi, r)

\* p belongs to some range of the list
MemberOfList(p, list) == \E i \in 1..Len(list) : Member(p, list[i])

NonEmpty(r) == \E p \in Points : Member(p, r)

Disjoint(r, o) == \A p \in Points : ~(Member(p, r) /\ Member(p, o))

\* the two lists hold the same ranges, each as many times
Count(list, x) == Cardinality({i \in 1..Len(list) : list[i] = x})

SameRanges(l1, l2) ==
    /\ Len(l1) = Len(l2)
    /\ \A i \in 1..Len(l1) : Count(l1, l1[i]) = Count(l2, l1[i])

Inclusive(r) == r.first_incl /\ r.second_incl

----------------------------------------------------------------------------
(* claims *)

\* C1: union is set union on the circle: for operands with endpoints in
\* [0, 2*pi], a point belongs to some range of a + b iff it belongs to a or
\* to b.
C1_UnionIsSetUnion ==
    (op = "add" /\ InTurn(self) /\ InTurn(other)) =>
        \A p \in Points :
            MemberOfList(p, result) <=> (Member(p, self) \/ Member(p, other))

\* C2: difference is set difference on the circle: for operands with
\* endpoints in [0, 2*pi], a point belongs to some range of a - b iff it
\* belongs to a and not to b.
C2_DifferenceIsSetDifference ==
    (op = "sub" /\ InTurn(self) /\ InTurn(other)) =>
        \A p \in Points :
            MemberOfList(p, result) <=> (Member(p, self) /\ ~Member(p, other))

\* C3: for a non-wrapping range with 0 <= start <= end <= 2*pi, both ends
\* inclusive, and an Angle p in [0, 2*pi]: p in r iff start <= p <= end.
C3_PointInNonWrapping ==
    (/\ op = "contains_angle"
     /\ InTurn(self) /\ self.first <= self.second /\ Inclusive(self)
     /\ angle \in 0..TwoPi) =>
        (answer <=> (self.first <= angle /\ angle <= self.second))

\* C4: a wrapping range (start > end) with both ends inclusive contains the
\* Angle equal to its start.
C4_WrapStartIsMember ==
    (/\ op = "contains_angle"
     /\ self.first > self.second /\ Inclusive(self)
     /\ angle = self.first) =>
        answer

\* C5: an Angle equal to an exclusive endpoint of a non-wrapping range is
\* never contained in the range: for every non-wrapping range when the Angle
\* has the endpoint's own radian value, and for every non-wrapping range with
\* endpoints in [0, 2*pi) also when it differs from it by full turns.
C5_ExclusiveBoundary ==
    (op = "contains_angle" /\ self.first <= self.second) =>
        /\ (~self.first_incl /\ angle = self.first) => ~answer
        /\ (~self.second_incl /\ angle = self.second) => ~answer
        /\ (InTurn(self) /\ self.second < TwoPi) =>
              /\ (~self.first_incl /\ AngleEq(angle, self.first)) => ~answer
              /\ (~self.second_incl /\ AngleEq(angle, self.second)) => ~answer

\* C5 witness: the start of an open non-wrapping range was probed and refused,
\* as Angle(0) in AngleRange(0, pi, False, False)
C5_Witness ==
    /\ op = "contains_angle"
    /\ self.first = 0 /\ self.second = TwoPi \div 2
    /\ ~self.first_incl /\ ~self.second_incl
    /\ angle = self.first
    /\ ~answer

\* C6: r - r is the empty list for every range r.
C6_SelfDifferenceEmpty ==
    (op = "sub" /\ other = self) => result = <<>>

\* C7 as claimed: for any a and b that share no point of the circle, a - b is
\* the one-element list holding a.
C7_DisjointDifferenceAny ==
    (op = "sub" /\ InTurn(self) /\ InTurn(other) /\ Disjoint(self, other)) =>
        result = <<self>>

\* C7 as amended: for a with 0 <= start <= end < 2*pi and b with endpoints in
\* [0, 2*pi], each holding at least one point and sharing none, a - b is the
\* one-element list holding a (same start, end and flags).
C7_DisjointDifference ==
    (/\ op = "sub"
     /\ InTurn(self) /\ InTurn(other)
     /\ self.first <= self.second /\ self.second < TwoPi
     /\ NonEmpty(self) /\ NonEmpty(other)
     /\ Disjoint(self, other)) =>
        result = <<self>>

\* C7 witness: a and b touch at a value that only one of them holds, and a
\* came back whole
C7_Witness ==
    /\ op = "sub"
    /\ InTurn(self) /\ InTurn(other)
    /\ self.first < self.second /\ self.second < TwoPi
    /\ other.first = self.second /\ other.first < other.second
    /\ self.second_incl /\ ~other.first_incl
    /\ Disjoint(self, other)
    /\ result = <<self>>

\* C8: a + b and b + a hold the same ranges, possibly in a different order.
C8_UnionCommutative ==
    op = "add" => SameRanges(result, Add(other, self))

\* the ranges for which r + r is [r]: after reduction mod 2*pi the start is
\* below the end, or equal to it with an inclusive flag, and the arc length
\* of r is the distance between the reduced endpoints
SelfUnionIsSelf(r) ==
    LET a1 == Mod2Pi(r.first)
        b1 == Mod2Pi(r.second)
    IN  /\ a1 < b1 \/ (a1 = b1 /\ (r.first_incl \/ r.second_incl))
        /\ Abs(r) = b1 - a1

\* C9 as claimed: r + r is a one-element list whose range is == r, for
\* every range r.
C9_UnionIdempotentAny ==
    (op = "add" /\ other = self) =>
        (Len(result) = 1 /\ RangeEq(result[1], self))

\* C9 as amended: r + r is a one-element list whose range is == r exactly for
\* the ranges that do not wrap after reduction mod 2*pi, are not a single
\* excluded value, and whose arc length is the distance between the reduced
\* endpoints (every r with 0 <= start <= end < 2*pi and start < end or an
\* inclusive flag is one); for such r the range returned has r's reduced
\* start and end and r's flags.
C9_UnionIdempotent ==
    (op = "add" /\ other = self) =>
        /\ (Len(result) = 1 /\ RangeEq(result[1], self)) <=> SelfUnionIsSelf(self)
        /\ SelfUnionIsSelf(self) =>
              result = <<AngleRange(Mod2Pi(self.first), Mod2Pi(self.second),
                                    self.first_incl, self.second_incl)>>
        /\ (/\ InTurn(self) /\ self.first <= self.second /\ self.second < TwoPi
            /\ (self.first < self.second \/ self.first_incl \/ self.second_incl))
              => SelfUnionIsSelf(self)

\* C9 witness: a range was added to itself and came back as one equal range
C9_Witness ==
    /\ op = "add"
    /\ other = self
    /\ 0 < self.first /\ self.first < self.second /\ self.second < TwoPi
    /\ Len(result) = 1
    /\ RangeEq(result[1], self)

\* C10: for inclusive [a, b] and [c, d] with 0 <= a <= c <= b <= d < 2*pi,
\* [a, b] + [c, d] is exactly the one range [a, d], both ends inclusive.
C10_OverlappingUnion ==
    (/\ op = "add"
     /\ Inclusive(self) /\ Inclusive(other)
     /\ 0 <= self.first /\ self.first <= other.first
     /\ other.first <= self.second /\ self.second <= other.second
     /\ other.second < TwoPi) =>
        result = <<AngleRange(self.first, other.second, TRUE, TRUE)>>

\* C10 witness: two properly overlapping inclusive ranges were merged, as
\* AngleRange(120, 200) + AngleRange(150, 240) in degrees
C10_Witness ==
    /\ op = "add"
    /\ Inclusive(self) /\ Inclusive(other)
    /\ 0 < self.first /\ self.first < other.first
    /\ other.first < self.second /\ self.second < other.second
    /\ other.second < TwoPi
    /\ result = <<AngleRange(self.first, other.second, TRUE, TRUE)>>

----------------------------------------------------------------------------
(* difference: the concrete cut *)

\* a is inclusive, b is inclusive and lies strictly inside a, both within
\* [0, 2*pi): the shape of AngleRange(0, 180) - AngleRange(45, 135) in degrees
MiddleCut(a, b) ==
    /\ Inclusive(a) /\ Inclusive(b)
    /\ 0 <= a.first /\ a.first < b.first /\ b.first <= b.second
    /\ b.second < a.second /\ a.second < TwoPi

\* C11 as claimed: subtracting an inclusive middle part from an inclusive
\* range leaves two ranges, start..cut and cut..end, with both cut values
\* included in the remainders.
C11_MiddleCutKeepsCuts ==
    (op = "sub" /\ MiddleCut(self, other)) =>
        /\ Len(result) = 2
        /\ result[1] = AngleRange(self.first, other.first, TRUE, TRUE)
        /\ result[2] = AngleRange(other.second, self.second, TRUE, TRUE)

\* C11 as amended: subtracting an inclusive middle part [c, d] from an
\* inclusive range [s, e] leaves exactly [s, c) and (d, e], in this order: the
\* cut values belong to the subtrahend and are excluded from the remainders.
C11_MiddleCut ==
    (op = "sub" /\ MiddleCut(self, other)) =>
        result = << AngleRange(self.first, other.first, TRUE, FALSE),
                    AngleRange(other.second, self.second, FALSE, TRUE) >>

\* C11 witness: a middle part was cut out of the half turn starting at 0
C11_Witness ==
    /\ op = "sub"
    /\ MiddleCut(self, other)
    /\ self.first = 0 /\ self.second = TwoPi \div 2
    /\ other.first < other.second
    /\ Len(result) = 2

----------------------------------------------------------------------------
(* containment by kind of outer and inner *)

Wraps(r) == r.first > r.second

\* the two boundary tests, written on the fields of outer and inner
StartTest(outer, inner) ==
    \/ inner.first > outer.first
    \/ (inner.first = outer.first /\ outer.first_incl /\ inner.first_incl)

EndTest(outer, inner) ==
    \/ inner.second < outer.second
    \/ (inner.second = outer.second /\ outer.second_incl /\ inner.second_incl)

\* C18: when outer and inner are both non-wrapping or both wrapping and
\* length(inner) <= length(outer), inner in outer is true iff the start test
\* and the end test both hold.
C18_SameKindContainment ==
    (/\ op = "contains"
     /\ Wraps(self) = Wraps(other)
     /\ Abs(other) <= Abs(self)) =>
        (answer <=> (StartTest(self, other) /\ EndTest(self, other)))

\* C18 witnesses: a wrapping inner sharing the start of a wrapping outer was
\* found inside it
C18_Witness ==
    /\ op = "contains"
    /\ Wraps(self) /\ Wraps(other)
    /\ Abs(other) <= Abs(self)
    /\ other.first = self.first /\ other.second < self.second
    /\ answer

\* C19: when outer wraps and inner is non-wrapping with endpoints in
\* [0, 2*pi] and length(inner) <= length(outer), inner in outer is true iff
\* inner lies in outer's segment from outer.start up to 2*pi or in outer's
\* segment from 0 up to outer.end, an endpoint equal to outer.start or
\* outer.end counting only when both flags there are inclusive.
C19_NonWrappingInWrapping ==
    (/\ op = "contains"
     /\ Wraps(self) /\ ~Wraps(other) /\ InTurn(other)
     /\ Abs(other) <= Abs(self)) =>
        (answer <=>
            \/ (StartTest(self, other) /\ other.second <= TwoPi)
            \/ (0 <= other.first /\ EndTest(self, other)))

\* C19 witness: an inner range ending exactly at the inclusive end of a
\* wrapping outer was found inside its segment from 0
C19_Witness ==
    /\ op = "contains"
    /\ Wraps(self) /\ ~Wraps(other) /\ InTurn(self) /\ InTurn(other)
    /\ Abs(other) <= Abs(self)
    /\ other.first < other.second
    /\ other.second = self.second /\ other.first < self.first
    /\ answer

\* C20: when outer is non-wrapping and inner wraps, inner in
\* outer is true only if inner's arc length is an integer multiple of 2*pi and
\* all four flags are inclusive.
C20_WrappingInNonWrappingByLength ==
    (op = "contains" /\ ~Wraps(self) /\ Wraps(other) /\ answer) =>
        /\ Abs(other) % TwoPi = 0
        /\ Inclusive(self) /\ Inclusive(other)

----------------------------------------------------------------------------
(* comparison and length of ranges, equality of Angles, frame *)

\* the two ranges have the same reduced start and the same reduced end
SameReduced(r, o) ==
    AngleEq(Angle(r.first), Angle(o.first)) /\ AngleEq(Angle(r.second), Angle(o.second))

\* C12 as claimed: two ranges whose raw starts reduce to the same angle and
\* whose raw ends reduce to the same angle compare equal, whatever the raw
\* values are.
C12_EqualOnReducedEndpoints ==
    (op = "eq" /\ self # NoRange /\ SameReduced(self, other)) => answer

\* C12 as amended: two ranges whose raw starts reduce to the same angle and
\* whose raw ends reduce to the same angle compare equal (==) exactly when
\* their arc lengths abs() are equal too, and != is the negation of ==.
C12_EqualOnReducedEndpointsAndLength ==
    (self # NoRange /\ SameReduced(self, other)) =>
        /\ op = "eq" => (answer <=> Abs(self) = Abs(other))
        /\ op = "ne" => (answer <=> Abs(self) # Abs(other))

\* C12 witness: two ranges with different raw endpoints compared equal
C12_Witness ==
    /\ op = "eq"
    /\ self # NoRange
    /\ self.first # other.first
    /\ SameReduced(self, other)
    /\ answer

\* the two ranges sit at different places of the circle
DifferentPlace(r, o) == ~SameReduced(r, o)

\* C14: r1 < r2 iff length(r1) < length(r2), r1 > r2 iff length(r1) >
\* length(r2); with equal lengths and a different reduced start or end,
\* r1 == r2 is false while r1 <= r2 and r1 >= r2 are true.
C14_OrderByLength ==
    self # NoRange =>
        /\ op = "lt" => (answer <=> Abs(self) < Abs(other))
        /\ op = "gt" => (answer <=> Abs(self) > Abs(other))
        /\ (Abs(self) = Abs(other) /\ DifferentPlace(self, other)) =>
              /\ op = "eq" => ~answer
              /\ op = "le" => answer
              /\ op = "ge" => answer

\* C14 witness: two half turns at different places were compared with <=, as
\* AngleRange(0, pi) and AngleRange(pi, 2*pi)
C14_Witness ==
    /\ op = "le"
    /\ self # NoRange
    /\ self.first = 0 /\ self.second = TwoPi \div 2
    /\ other.first = self.second /\ other.second = TwoPi
    /\ Abs(self) = Abs(other) /\ DifferentPlace(self, other)
    /\ answer

\* the unit arcs between neighbouring grid values that the range covers
ArcsCovered(r) == {p \in Points : p % 2 = 1 /\ Member(p, r)}

\* C15: abs(AngleRange(s, e)) is e - s when s <= e and (2*pi - s) + e when
\* s > e; for endpoints in [0, 2*pi] it lies in [0, 2*pi] (and is the measure
\* of the arc the range covers).
C15_ArcLength ==
    (op = "abs" /\ self # NoRange) =>
        /\ self.first <= self.second => value = self.second - self.first
        /\ self.first > self.second => value = (TwoPi - self.first) + self.second
        /\ InTurn(self) =>
              /\ 0 <= value /\ value <= TwoPi
              /\ value = Cardinality(ArcsCovered(self))

\* C15 witness: the length of a wrapping range of half a turn was taken
C15_Witness ==
    /\ op = "abs"
    /\ self # NoRange
    /\ InTurn(self) /\ self.first > self.second /\ self.second > 0
    /\ value = TwoPi \div 2

\* rhs holds the radians computed for lhs + 2*pi*k: exact for k = 0, off by at
\* most RoundErr otherwise
Turned(x, y) ==
    \E k \in (0 - MaxTurns) .. MaxTurns :
        \E e \in (0 - RoundErr) .. RoundErr :
            /\ k = 0 => e = 0
            /\ y = x + k * FineTurn + e

\* C13: Angle(x) == Angle(x + 2*pi*k) is true and Angle(x) != Angle(x +
\* 2*pi*k) is false, for every x and every integer k.
C13_AnglePeriodic ==
    (lhs # NoAngleObject /\ Turned(lhs, rhs)) =>
        /\ op = "angle_eq" => answer
        /\ op = "angle_ne" => ~answer

\* C16: no comparison, length, containment, union or difference changes a
\* field of an AngleRange operand, no comparison or arithmetic changes the
\* radians of an Angle operand; only the radian and degree setters change an
\* existing Angle.
C16_OperandsKept ==
    [][ /\ self' = self
        /\ other' = other
        /\ (op' \notin {"set_radian", "set_degree"}) => (lhs' = lhs /\ rhs' = rhs)
      ]_vars

\* C16 witness: a sum of two Angles was returned that differs from both
\* operands
C16_Witness ==
    /\ op = "angle_add"
    /\ lhs # NoAngleObject
    /\ value = lhs + rhs
    /\ value # lhs /\ value # rhs

----------------------------------------------------------------------------
(* C17 *)

\* the keys of the KeyCommand entries of a stack, bottom first
RECURSIVE KeyText(_)
KeyText(stack) ==
    IF stack = <<>> THEN <<>>
    ELSE LET rest == KeyText(SubSeq(stack, 1, Len(stack) - 1))
             key == stack[Len(stack)]
         IN IF key \in Letters THEN rest \o <<key>> ELSE rest

\* C17: after any sequence of do, undo and redo calls on a Keyboard whose
\* commands are single-character KeyCommands and non-printing commands, the
\* text equals the concatenation, in stack order, of the keys of the
\* KeyCommand entries now in undo_stack
C17_TextFollowsUndoStack ==
    /\ buffer = KeyText(undo_stack)
    /\ printed_sq = KeyText(undo_stack)

\* do a, do b, do c, undo, undo, redo has run: the text is ab and c waits in
\* the redo stack
C17_Witness ==
    /\ op = "redo"
    /\ undo_stack = <<"a", "b">>
    /\ redo_stack = <<"c">>
    /\ buffer = <<"a", "b">>
    /\ printed_sq = <<"a", "b">>

----------------------------------------------------------------------------
(* C21 to C27: cuts, merges and the shape of result lists *)

\* r is one linear segment: it is its own reduced, non-wrapping form
Linear(r) == 0 <= r.first /\ r.first <= r.second /\ r.second < TwoPi

\* r and o share a point of the circle
Meets(r, o) == \E p \in Points : Member(p, r) /\ Member(p, o)

\* C21: when the subtrahend segment from s2 to e2 overlaps the minuend, the
\* remainder kept before s2 ends at s2 and is end-exclusive exactly when the
\* subtrahend's start is inclusive, the remainder kept after e2 starts at e2
\* and is start-exclusive exactly when the subtrahend's end is inclusive, and
\* the other endpoints keep the minuend's value and flag.
C21_CutInclusivity ==
    (op = "sub" /\ Linear(self) /\ Linear(other) /\ Meets(self, other)) =>
        LET before == AngleRange(self.first, other.first,
                                 self.first_incl, ~other.first_incl)
            after  == AngleRange(other.second, self.second,
                                 ~other.second_incl, self.second_incl)
        IN  /\ Len(result) <= 2
            /\ \A i \in 1..Len(result) : result[i] \in {before, after}
            /\ self.first < other.first =>
                  (Len(result) >= 1 /\ result[1] = before)
            /\ self.second > other.second =>
                  (Len(result) >= 1 /\ result[Len(result)] = after)

\* C21 witness: a single inclusive value was cut out of the inside of an
\* inclusive range, as in AngleRange(0, pi) - AngleRange(pi/2, pi/2)
C21_Witness ==
    /\ op = "sub"
    /\ Linear(self) /\ Linear(other)
    /\ Inclusive(self) /\ Inclusive(other)
    /\ self.first = 0
    /\ other.first = other.second
    /\ 0 < other.first /\ other.first < self.second
    /\ result = << AngleRange(0, other.first, TRUE, FALSE),
                   AngleRange(other.first, self.second, FALSE, TRUE) >>

\* first ends where next starts, both being proper linear segments
Abuts(first, next) ==
    /\ Linear(first) /\ Linear(next)
    /\ first.first < first.second
    /\ next.first < next.second
    /\ first.second = next.first

\* what a + b is when first abuts next
Merged(first, next, list) ==
    IF first.second_incl \/ next.first_incl
    THEN list = << AngleRange(first.first, next.second,
                              first.first_incl, next.second_incl) >>
    ELSE list = << first, next >>

\* C22: in a + b, a segment ending at v and a segment starting at v are
\* merged into one output range iff the first one's end flag or the second
\* one's start flag is inclusive; with both exclusive they stay separate.
C22_TouchingMerge ==
    op = "add" =>
        /\ Abuts(self, other) => Merged(self, other, result)
        /\ Abuts(other, self) => Merged(other, self, result)

\* C22 witness: two ranges meeting at a value excluded from both came back
\* as two ranges, as AngleRange(0, pi/2, end exclusive) + AngleRange(pi/2, pi,
\* start exclusive)
C22_Witness ==
    /\ op = "add"
    /\ Abuts(self, other)
    /\ self.first = 0
    /\ ~self.second_incl /\ ~other.first_incl
    /\ Len(result) = 2

\* no point of the circle belongs to two ranges of the list
PairwiseDisjoint(list) ==
    \A i, j \in 1..Len(list) : i < j => Disjoint(list[i], list[j])

\* C23: for a and b with endpoints in [0, 2*pi], the ranges of a + b are
\* pairwise disjoint and the ranges of a - b are pairwise disjoint.
C23_ResultsDisjoint ==
    (op \in {"add", "sub"} /\ InTurn(self) /\ InTurn(other)) =>
        PairwiseDisjoint(result)

\* C24: for ranges with endpoints in [0, 2*pi], whenever inner in outer is
\* true every point of the circle that belongs to inner belongs to outer.
C24_ContainmentSound ==
    (op = "contains" /\ InTurn(self) /\ InTurn(other) /\ answer) =>
        \A p \in Points : Member(p, other) => Member(p, self)

\* C25: r in r is true if and only if both of r's endpoint flags are
\* inclusive.
C25_SelfContainment ==
    (op = "contains" /\ other = self) => (answer <=> Inclusive(self))

\* C25 witness: a wrapping range with an exclusive end was found not to
\* contain itself
C25_Witness ==
    /\ op = "contains"
    /\ other = self
    /\ Wraps(self)
    /\ ~self.second_incl
    /\ ~answer

\* every range of the list is non-wrapping with 0 <= start <= end <= 2*pi
LinearForm(list) ==
    \A i \in 1..Len(list) :
        /\ 0 <= list[i].first
        /\ list[i].first <= list[i].second
        /\ list[i].second <= TwoPi

\* the ranges of the list appear in ascending order of start; two ranges
\* may start at the same value
AscendingStarts(list) ==
    \A i \in 1..(Len(list) - 1) : list[i].first <= list[i + 1].first

\* C26: for any operands, every range returned by a + b or by a - b is
\* non-wrapping with 0 <= start <= end <= 2*pi, the list returned by a + b
\* is never empty, and its ranges appear in ascending order of start.
C26_LinearNormalForm ==
    /\ op \in {"add", "sub"} => LinearForm(result)
    /\ op = "add" => (Len(result) >= 1 /\ AscendingStarts(result))

\* C26 witness: the union of a range with raw endpoints outside [0, 2*pi] and
\* a wrapping range came back as two ranges
C26_Witness ==
    /\ op = "add"
    /\ (self.first < 0 \/ self.second > TwoPi)
    /\ Wraps(other)
    /\ Len(result) = 2

\* C27: two ranges with the same start and the same end compare equal (==)
\* whatever their inclusive flags are.
C27_EqualityIgnoresFlags ==
    (/\ op \in {"eq", "ne"}
     /\ self # NoRange
     /\ self.first = other.first
     /\ self.second = other.second) =>
        (answer <=> op = "eq")

\* C27 witness: a closed and an open range with the same endpoints compared
\* equal
C27_Witness ==
    /\ op = "eq"
    /\ self # NoRange
    /\ self.first = other.first /\ self.second = other.second
    /\ Inclusive(self)
    /\ ~other.first_incl /\ ~other.second_incl
    /\ self.first < self.second
    /\ answer

----------------------------------------------------------------------------
(* C28 *)

\* C28: after Keyboard.do of a registered key the redo_stack is empty and
\* stays empty until the next undo, so a redo issued before any further undo
\* changes neither the text nor undo_stack: a command undone before that do
\* is never re-applied by redo.
C28_DoDiscardsRedo ==
    [][ /\ op' = "do" => redo_stack' = <<>>
        /\ (redo_stack = <<>> /\ op' # "undo") => redo_stack' = <<>>
        /\ (redo_stack = <<>> /\ op' = "redo") =>
              /\ buffer' = buffer
              /\ printed_sq' = printed_sq
              /\ undo_stack' = undo_stack
      ]_vars

\* C28 witness: redo was called with nothing to redo while a command is in
\* the undo history, as after do a, undo, do b, redo
C28_Witness ==
    /\ op = "redo"
    /\ redo_stack = <<>>
    /\ undo_stack = <<"b">>
    /\ buffer = <<"b">>
    /\ printed_sq = <<"b">>

----------------------------------------------------------------------------
(* C29 *)

\* the calls of resolve for a registered type that returned an instance
Got == {i \in 1..Len(resolved) :
            /\ resolved[i].abstract \in Abstracts
            /\ resolved[i].instance # NoInstance}

\* C29: resolve returns the identical instance on every call for a SINGLETON
\* registration, inside or outside scopes; for a SCOPED registration the
\* identical instance for calls inside one scope and a different instance in
\* a different scope; a new instance on every call for a TRANSIENT
\* registration; and resolving a SCOPED registration with no active scope
\* fails with an error.
C29_Lifecycles ==
    /\ \A i, j \in Got :
          (i < j /\ resolved[i].abstract = resolved[j].abstract) =>
             LET lifecycle == registry[resolved[i].abstract]
                 same == resolved[i].instance = resolved[j].instance
             IN  /\ lifecycle = "Singleton" => same
                 /\ lifecycle = "Transient" => ~same
                 /\ lifecycle = "Scoped" =>
                       (same <=> resolved[i].scope = resolved[j].scope)
    /\ \A i \in 1..Len(resolved) :
          (/\ resolved[i].abstract \in Abstracts
           /\ registry[resolved[i].abstract] = "Scoped"
           /\ resolved[i].scope = NoInstance) =>
              resolved[i].instance = NoInstance

\* C29 witness: with a singleton logger, the scoped repository was resolved
\* twice in one scope and once in the next: the first two calls returned the
\* same instance and the third another one
C29_Witness ==
    /\ registry # <<>>
    /\ registry["ILogger"] = "Singleton"
    /\ registry["IDataRepository"] = "Scoped"
    /\ Len(resolved) = 3
    /\ \A i \in 1..3 : resolved[i].abstract = "IDataRepository"
    /\ resolved[1].scope = resolved[2].scope
    /\ resolved[1].scope # resolved[3].scope
    /\ resolved[1].instance # NoInstance
    /\ resolved[1].instance = resolved[2].instance
    /\ resolved[3].instance # NoInstance
    /\ resolved[3].instance # resolved[1].instance

----------------------------------------------------------------------------
(* C30 *)

\* the session file holds exactly one record, with the signed-in user's id,
\* when is_authorized is true, and no record when it is false
OneSession ==
    IF is_authorized THEN sessions = <<session_data>> ELSE sessions = <<>>

\* C30: over an initially empty session file and any sequence of sign_in and
\* sign_out calls, the session file holds exactly one record, with the
\* signed-in user's id, whenever is_authorized is true and none whenever it
\* is false; a sign_in while a session is active, a sign_in of a user absent
\* from the user repository and a sign_out by a user other than the
\* signed-in one leave the file and the in-memory session unchanged. Stated
\* on every step: the file matches the session before and after it.
C30_AtMostOneSession ==
    [][ /\ OneSession
        /\ OneSession'
        /\ (op' = "sign_in" /\ (is_authorized \/ user' \notin users)) =>
              UNCHANGED <<sessions, session_data>>
        /\ (op' = "sign_out" /\ is_authorized /\ user' # session_data) =>
              UNCHANGED <<sessions, session_data>>
      ]_vars

\* C30 witness: a registered user tried to sign in while another user's
\* session was active, and that session is still the only record
C30_Witness ==
    /\ op = "sign_in"
    /\ is_authorized
    /\ user \in users
    /\ user # session_data
    /\ sessions = <<session_data>>

====
